---- MODULE Spec2Model ----
(***************************************************************************)
(* A model of scripts/webp_converter.py: a batch image converter.  main()  *)
(* validates its arguments, scans one directory (find_images), builds one  *)
(* (input_path, output_path) task per image, runs convert_image on a       *)
(* ThreadPoolExecutor and tallies the outcomes as they complete.           *)
(*                                                                         *)
(* Strings that the code takes apart (file names, paths) are sequences of  *)
(* one-character strings.  The file system, the decoded images and the     *)
(* faults of the environment are chosen in Init and the code's steps are   *)
(* the actions.  Console output of the coordinator is assumed to succeed.  *)
(***************************************************************************)
EXTENDS Integers, Sequences, FiniteSets, TLC

\* ------------------------------------------------------------------ bounds
\* The largest number of entries in the input directory.
MaxEntries == 3
\* The largest value of --jobs that is tried.
MaxJobs == 2
\* The largest number of pixels of an image that is tried.
MaxPixels == 2

\* ------------------------------------------------------- strings and paths
Sep == "/"
ExtSep == "."

\* str.lower() on the alphabet the file names are drawn from.
LowerChar(c) ==
  CASE c = "F" -> "f"
    [] c = "P" -> "p"
    [] c = "N" -> "n"
    [] c = "G" -> "g"
    [] OTHER -> c

lower(s) == [i \in 1..Len(s) |-> LowerChar(s[i])]

\* s.endswith(suf) for one suffix.
EndsWith(s, suf) ==
  /\ Len(s) >= Len(suf)
  /\ SubSeq(s, Len(s) - Len(suf) + 1, Len(s)) = suf

\* s.rfind(c), 1-based, 0 when c does not occur.
RFind(s, c) ==
  LET hits == {i \in 1..Len(s) : s[i] = c}
  IN IF hits = {} THEN 0 ELSE CHOOSE i \in hits : \A j \in hits : j <= i

\* The default of find_images' extensions parameter.
extensions ==
  << <<".", "p", "n", "g">>,
     <<".", "j", "p", "g">>,
     <<".", "j", "p", "e", "g">>,
     <<".", "b", "m", "p">>,
     <<".", "t", "i", "f", "f">> >>

\* s.endswith(tuple): some member of the tuple is a suffix.
EndsWithAny(s, sufs) == \E k \in 1..Len(sufs) : EndsWith(s, sufs[k])

\* os.path.join(a, b) (posixpath).
join(a, b) ==
  IF Len(b) > 0 /\ b[1] = Sep THEN b
  ELSE IF a = <<>> \/ a[Len(a)] = Sep THEN a \o b
  ELSE a \o <<Sep>> \o b

\* os.path.basename(p): what follows the last separator.
basename(p) == SubSeq(p, RFind(p, Sep) + 1, Len(p))

\* s.rstrip('/').
RECURSIVE RStripSep(_)
RStripSep(s) ==
  IF s # <<>> /\ s[Len(s)] = Sep THEN RStripSep(SubSeq(s, 1, Len(s) - 1)) ELSE s

\* os.path.dirname(p): the head up to the last separator, trailing
\* separators stripped unless the head is separators only.
dirname(p) ==
  LET head == SubSeq(p, 1, RFind(p, Sep))
  IN IF head # <<>> /\ (\E i \in 1..Len(head) : head[i] # Sep)
     THEN RStripSep(head) ELSE head

\* os.path.splitext(p) for a name without separators: split at the last dot
\* unless only dots precede it.
splitext(p) ==
  LET dotIndex == RFind(p, ExtSep)
  IN IF dotIndex > 0 /\ (\E i \in 1..(dotIndex - 1) : p[i] # ExtSep)
     THEN <<SubSeq(p, 1, dotIndex - 1), SubSeq(p, dotIndex, Len(p))>>
     ELSE <<p, <<>> >>

WebpExt == <<".", "w", "e", "b", "p">>

\* -------------------------------------------------- the environment's data
\* File names of the input directory (what os.listdir can return).
NameAPng == <<"a", ".", "p", "n", "g">>
NameAJpg == <<"a", ".", "j", "p", "g">>
NameBJpg == <<"b", ".", "j", "p", "g">>
NameDPng == <<"d", ".", "p", "n", "g">>
NameGTiff == <<"g", ".", "t", "i", "f", "f">>
NameHBmp == <<"h", ".", "b", "m", "p">>
NameFPNG == <<"F", ".", "P", "N", "G">>
NameKJpeg == <<"k", ".", "j", "p", "e", "g">>
NameRPng == <<"r", ".", "p", "n", "g">>
NameCTxt == <<"c", ".", "t", "x", "t">>
NameSub == <<"s", "u", "b">>
NameJPngDir == <<"j", ".", "p", "n", "g">>
NameDotPng == <<".", "p", "n", "g">>
NamePng == <<"p", "n", "g">>
NameEPng == <<"e", ".", "p", "n", "g">>
NamePngTxt == <<"a", ".", "p", "n", "g", ".", "t", "x", "t">>

White == <<255, 255, 255>>

\* A decoded image: its mode, its pixels, and for mode P its palette (the
\* RGBA value of each palette index, transparency included).
Img(mode, px, palette) == [mode |-> mode, px |-> px, palette |-> palette]

NoImage == Img("none", <<>>, <<>>)

\* What is on disk under each name (the table the runs start from): its kind, what Image.open decodes, and
\* the step of the conversion at which the environment fails it:
\*   "open"       Image.open raises (unreadable, not an image)
\*   "convert"    the pixel data cannot be loaded: raised by the first
\*                operation that loads it (convert, split, paste)
\*   "save"       img.save raises (pixel data of an RGB file that cannot be
\*                loaded, or a failed write)
\*   "open_raise" Image.open raises and the handler's own print raises too
Entry(kind, fault, img) == [kind |-> kind, fault |-> fault, img |-> img]

DiskTable(name) ==
  CASE name = NameAPng ->
         Entry("file", "none",
               Img("RGBA", << <<0, 0, 0, 0>>, <<10, 20, 30, 255>>, <<0, 0, 0, 128>> >>, <<>>))
    [] name = NameAJpg ->
         Entry("file", "none", Img("L", << <<0>>, <<200>> >>, <<>>))
    [] name = NameBJpg ->
         Entry("file", "none", Img("RGB", << <<8, 7, 6>>, <<5, 4, 3>> >>, <<>>))
    [] name = NameDPng ->
         Entry("file", "open", NoImage)
    [] name = NameGTiff ->
         Entry("file", "none", Img("LA", << <<0, 0>>, <<90, 255>> >>, <<>>))
    [] name = NameHBmp ->
         Entry("file", "save", Img("RGB", << <<1, 2, 3>> >>, <<>>))
    [] name = NameFPNG ->
         Entry("file", "none",
               Img("P", << <<1>>, <<2>>, <<1>> >>,
                   << <<0, 0, 0, 0>>, <<50, 60, 70, 255>> >>))
    [] name = NameKJpeg ->
         Entry("file", "convert", Img("L", << <<7>> >>, <<>>))
    [] name = NameRPng ->
         Entry("file", "open_raise", NoImage)
    [] name = NameEPng ->
         Entry("file", "none", Img("RGB", << <<9, 9, 9>> >>, <<>>))
    [] name = NameDotPng ->
         Entry("file", "none", Img("RGB", << <<4, 5, 6>> >>, <<>>))
    [] name \in {NameSub, NameJPngDir} ->
         Entry("dir", "open", NoImage)
    [] OTHER ->
         Entry("file", "open", NoImage)

\* The entries of a subdirectory of the input directory.
Children(name) == IF name = NameSub THEN {NameEPng} ELSE {}

\* ------------------------------------------------- the imaging operations
\* One channel of a masked paste: the source over the destination with
\* mask m in 0..255 (m = 0 keeps the destination, m = 255 takes the source).
BlendChannel(dst, src, m) == (src * m + dst * (255 - m) + 127) \div 255

\* Image.new('RGB', img.size, color).
ImageNew(size, color) == Img("RGB", [i \in 1..size |-> color], <<>>)

\* img.convert('RGBA') of a palette image: each index becomes its palette
\* entry, the entry's transparency becoming the alpha channel.
ConvertRGBA(img) ==
  IF img.mode = "P"
  THEN Img("RGBA", [i \in 1..Len(img.px) |-> img.palette[img.px[i][1]]], <<>>)
  ELSE img

\* The (R, G, B) bytes of a pixel as the library stores it: RGBA as
\* (r, g, b, a), LA as (l, l, l, a), L as (l), the bilevel mode 1 as (0) or
\* (255).
StoredRGB(mode, p) ==
  CASE mode \in {"RGBA", "RGB"} -> <<p[1], p[2], p[3]>>
    [] mode \in {"LA", "L", "1"} -> <<p[1], p[1], p[1]>>

\* img.convert('RGB') of a mode other than RGBA, LA, P and RGB.
ConvertRGB(img) ==
  Img("RGB", [i \in 1..Len(img.px) |-> StoredRGB(img.mode, img.px[i])], <<>>)

\* img.split()[-1]: the last band of the image.
LastBand(img) == [i \in 1..Len(img.px) |-> img.px[i][Len(img.px[i])]]

\* background.paste(img, mask=mask): with a mask each pixel is blended by
\* the mask's value; with mask=None the stored bytes of img replace the
\* background's, whatever img's alpha.
Paste(background, img, mask) ==
  Img("RGB",
      [i \in 1..Len(background.px) |->
         LET src == StoredRGB(img.mode, img.px[i])
         IN IF mask = <<>> THEN src
            ELSE [c \in 1..3 |-> BlendChannel(background.px[i][c], src[c], mask[i])]],
      <<>>)

\* The normalisation without the elif of lines 19 and 20.
NormalizeNoElif(img0) ==
  IF img0.mode \in {"RGBA", "LA", "P"}
  THEN LET background == ImageNew(Len(img0.px), White)
           img == IF img0.mode = "P" THEN ConvertRGBA(img0) ELSE img0
           mask == IF img.mode = "RGBA" THEN LastBand(img) ELSE <<>>
       IN Paste(background, img, mask)
  ELSE img0

\* convert_image, lines 12 to 20: what is handed to img.save.
Normalize(img0) ==
  IF img0.mode \in {"RGBA", "LA", "P"}
  THEN LET background == ImageNew(Len(img0.px), White)
           img == IF img0.mode = "P" THEN ConvertRGBA(img0) ELSE img0
           mask == IF img.mode = "RGBA" THEN LastBand(img) ELSE <<>>
       IN Paste(background, img, mask)
  ELSE IF img0.mode # "RGB" THEN ConvertRGB(img0)
  ELSE img0

\* ------------------------------------------------------------------ state
VARIABLES
  args,              \* the parsed arguments: input_dir, output, quality, jobs
  inKind,            \* what args.input_dir is: "missing", "file", "noperm", "dir"
  listing,           \* what os.listdir(args.input_dir) returns, in its order
  disk,              \* what is at each name: kind, fault, decoded image
  mkdirFails,        \* whether creating a missing output directory fails
  dirs,              \* the output directories that exist
  files,             \* the output files written: records of path and bytes
  pc,                \* where main is
  exit_code,         \* the process's exit code, NotExited until it ends
  console,           \* the kinds of message printed so far
  scanned,           \* whether os.listdir has been called
  image_files,       \* main's image_files
  conversion_tasks,  \* main's conversion_tasks: <<input_path, output_path>>
  successful,        \* main's counters
  failed,
  executor,          \* the ThreadPoolExecutor: created, max_workers, threads, queue
  fut,               \* the futures in submission order: state, result, starts
  yielded,           \* the futures as_completed has handed to the loop
  worker,            \* each pool thread: pc, task, img
  summary,           \* the totals the summary printed
  errlog,            \* the input paths that line 112 has printed
  run,               \* which invocation of the program this is: 1 or 2
  files1             \* the output files the first invocation left

vars == <<args, inKind, listing, disk, mkdirFails, dirs, files, pc, exit_code, console,
          scanned, image_files, conversion_tasks, successful, failed, executor,
          fut, yielded, worker, summary, errlog, run, files1>>

NotExited == -1

InputDir == <<"i", "n">>
OutputDir == <<"o", "u", "t">>

Range(s) == {s[i] : i \in 1..Len(s)}

\* The sequences of at most n distinct members of S.
Listings(S, n) ==
  UNION {{s \in [1..k -> S] : \A i, j \in 1..k : i # j => s[i] # s[j]} : k \in 0..n}

\* The pool threads the model tells apart.
ThreadIds == 1..(MaxJobs + MaxEntries)

IdleThread == [pc |-> "idle", task |-> 0, img |-> NoImage]

NoSummary == [successful |-> -1, failed |-> -1, total |-> -1]

\* The names a run's input directory is filled from, and the values of
\* --quality and --jobs that are tried.
RunNames == {NameAPng, NameAJpg, NameDPng, NameHBmp, NameRPng, NameCTxt}
Qualities == {-1, 0, 100, 101}
Jobs == -1..MaxJobs

\* The entries at the names of a listing and in its subdirectories.
DiskOf(names) ==
  [n \in names \cup UNION {Children(m) : m \in names} |-> DiskTable(n)]

\* The state of a process that has parsed its arguments.
Started ==
  /\ pc = "validate_input"
  /\ exit_code = NotExited
  /\ console = {}
  /\ errlog = {}
  /\ scanned = FALSE
  /\ image_files = <<>>
  /\ conversion_tasks = <<>>
  /\ successful = 0
  /\ failed = 0
  /\ executor = [created |-> FALSE, max_workers |-> 0, threads |-> 0, queue |-> <<>>]
  /\ fut = <<>>
  /\ yielded = {}
  /\ worker = [w \in ThreadIds |-> IdleThread]
  /\ summary = NoSummary

InitProgram ==
  /\ files = {}
  /\ run = 1
  /\ files1 = {}
  /\ Started

Init ==
  /\ \E q \in Qualities, j \in Jobs :
       args = [input_dir |-> InputDir, output |-> OutputDir, quality |-> q, jobs |-> j]
  /\ inKind \in {"missing", "file", "noperm", "dir"}
  /\ listing \in (IF inKind = "dir" THEN Listings(RunNames, MaxEntries) ELSE {<<>>})
  /\ disk = DiskOf(Range(listing))
  /\ mkdirFails \in BOOLEAN
  /\ dirs = {}
  /\ InitProgram

\* ------------------------------------------------------------ file system
\* The entry at a path: a child of the input directory, or a child of one
\* of its subdirectories.
Lookup(path) ==
  LET direct == {n \in Range(listing) : join(args.input_dir, n) = path}
      nested == {c \in UNION {Children(n) : n \in Range(listing)} :
                   \E n \in Range(listing) :
                     /\ disk[n].kind = "dir"
                     /\ c \in Children(n)
                     /\ join(join(args.input_dir, n), c) = path}
  IN IF inKind # "dir" THEN Entry("none", "open", NoImage)
     ELSE IF direct # {} THEN disk[CHOOSE n \in direct : TRUE]
     ELSE IF nested # {} THEN disk[CHOOSE c \in nested : TRUE]
     ELSE Entry("none", "open", NoImage)

\* os.path.exists(path) of the input directory.
exists(path) == path = args.input_dir /\ inKind # "missing"

\* os.path.isfile(path).
isfile(path) == Lookup(path).kind = "file"

\* os.listdir(directory) raises for what is not a readable directory.
ListdirRaises(directory) == ~(directory = args.input_dir /\ inKind = "dir")

\* os.listdir(directory): the names of the direct children.
listdir(directory) == IF directory = args.input_dir THEN listing ELSE <<>>

\* -------------------------------------------------------------- find_images
\* find_images with a handler that swallows the exception unreported.
find_imagesSilent(directory) ==
  LET Keep(file) ==
        /\ isfile(join(directory, file))
        /\ EndsWithAny(lower(file), extensions)
      kept == SelectSeq(listdir(directory), Keep)
  IN IF ListdirRaises(directory)
     THEN [image_files |-> <<>>, error |-> FALSE]
     ELSE [image_files |-> [i \in 1..Len(kept) |-> join(directory, kept[i])],
           error |-> FALSE]

\* find_images without the os.path.isfile test.
find_imagesNoIsfile(directory) ==
  LET Keep(file) == EndsWithAny(lower(file), extensions)
      kept == SelectSeq(listdir(directory), Keep)
  IN IF ListdirRaises(directory)
     THEN [image_files |-> <<>>, error |-> TRUE]
     ELSE [image_files |-> [i \in 1..Len(kept) |-> join(directory, kept[i])],
           error |-> FALSE]

\* find_images(directory): the paths of the children that are files and
\* whose lowercased name ends with one of the extensions, in listing
\* order; an exception of the listing is reported and leaves the list empty.
find_images(directory) ==
  LET Keep(file) ==
        /\ isfile(join(directory, file))
        /\ EndsWithAny(lower(file), extensions)
      kept == SelectSeq(listdir(directory), Keep)
  IN IF ListdirRaises(directory)
     THEN [image_files |-> <<>>, error |-> TRUE]
     ELSE [image_files |-> [i \in 1..Len(kept) |-> join(directory, kept[i])],
           error |-> FALSE]

\* Task building that appends .webp to the whole base name.
TaskOfKeepsExt(input_path) ==
  LET filename == basename(input_path)
      output_path == join(args.output, filename \o WebpExt)
  IN <<input_path, output_path>>

\* main, lines 86 to 92: the task of one input path.
TaskOf(input_path) ==
  LET filename == basename(input_path)
      name_without_ext == splitext(filename)[1]
      output_path == join(args.output, name_without_ext \o WebpExt)
  IN <<input_path, output_path>>

\* The validation with strict comparisons.
QualityValidStrict(quality) == 0 < quality /\ quality < 100

\* main, line 65: the quality passes validation.
QualityValid(quality) == 0 <= quality /\ quality <= 100

\* ------------------------------------------------------ main: pre-flight
\* main, lines 60 to 62.
ValidateInput ==
  /\ pc = "validate_input"
  /\ IF ~exists(args.input_dir)
     THEN /\ console' = console \cup {"input_missing"}
          /\ exit_code' = 1
          /\ pc' = "exit"
     ELSE /\ pc' = "validate_quality"
          /\ UNCHANGED <<console, exit_code>>
  /\ UNCHANGED <<run, files1, errlog, args, inKind, listing, disk, mkdirFails, dirs, files, scanned, image_files,
                 conversion_tasks, successful, failed, executor, fut, yielded,
                 worker, summary>>

\* main, lines 65 to 73.
ValidateQuality ==
  /\ pc = "validate_quality"
  /\ IF ~QualityValid(args.quality)
     THEN /\ console' = console \cup {"bad_quality"}
          /\ exit_code' = 1
          /\ pc' = "exit"
     ELSE /\ console' = console \cup {"banner"}
          /\ pc' = "scan"
          /\ UNCHANGED exit_code
  /\ UNCHANGED <<run, files1, errlog, args, inKind, listing, disk, mkdirFails, dirs, files, scanned, image_files,
                 conversion_tasks, successful, failed, executor, fut, yielded,
                 worker, summary>>

\* main, line 76: the call of find_images.
Scan ==
  /\ pc = "scan"
  /\ LET found == find_images(args.input_dir)
     IN /\ image_files' = found.image_files
        /\ console' = IF found.error THEN console \cup {"scan_error"} ELSE console
  /\ scanned' = TRUE
  /\ pc' = "check_empty"
  /\ UNCHANGED <<run, files1, errlog, args, inKind, listing, disk, mkdirFails, dirs, files, exit_code,
                 conversion_tasks, successful, failed, executor, fut, yielded,
                 worker, summary>>

\* The empty check that prints its message and goes on.
CheckEmptyNoExit ==
  /\ pc = "check_empty"
  /\ console' = console \cup {IF image_files = <<>> THEN "no_images" ELSE "found"}
  /\ pc' = "build"
  /\ UNCHANGED <<run, files1, errlog, args, inKind, listing, disk, mkdirFails, dirs, files, exit_code,
                 scanned, image_files, conversion_tasks, successful, failed, executor,
                 fut, yielded, worker, summary>>

\* main, lines 78 to 82.
CheckEmpty ==
  /\ pc = "check_empty"
  /\ IF image_files = <<>>
     THEN /\ console' = console \cup {"no_images"}
          /\ exit_code' = 1
          /\ pc' = "exit"
     ELSE /\ console' = console \cup {"found"}
          /\ pc' = "build"
          /\ UNCHANGED exit_code
  /\ UNCHANGED <<run, files1, errlog, args, inKind, listing, disk, mkdirFails, dirs, files, scanned, image_files,
                 conversion_tasks, successful, failed, executor, fut, yielded,
                 worker, summary>>

\* main, lines 85 to 96.
BuildTasks ==
  /\ pc = "build"
  /\ conversion_tasks' = [i \in 1..Len(image_files) |-> TaskOf(image_files[i])]
  /\ successful' = 0
  /\ failed' = 0
  /\ pc' = "pool"
  /\ UNCHANGED <<run, files1, errlog, args, inKind, listing, disk, mkdirFails, dirs, files, exit_code, console,
                 scanned, image_files, executor, fut, yielded, worker, summary>>

\* ------------------------------------------------------ main: coordinator
\* A pool with one thread per task, whatever --jobs says.
PoolSizePerTask == Len(conversion_tasks)

\* A pool size with a minimum of 1.
PoolSizeClamped == IF args.jobs < 1 THEN 1 ELSE args.jobs

\* main, line 98: max_workers=args.jobs.
PoolSize == args.jobs

\* main, line 98: ThreadPoolExecutor(max_workers) raises ValueError for a
\* size below 1; nothing catches it and the process ends with code 1.
CreatePool ==
  /\ pc = "pool"
  /\ IF PoolSize <= 0
     THEN /\ console' = console \cup {"traceback"}
          /\ exit_code' = 1
          /\ pc' = "exit"
          /\ UNCHANGED executor
     ELSE /\ executor' = [created |-> TRUE, max_workers |-> PoolSize,
                          threads |-> 0, queue |-> <<>>]
          /\ pc' = "submit"
          /\ UNCHANGED <<console, exit_code>>
  /\ UNCHANGED <<run, files1, errlog, args, inKind, listing, disk, mkdirFails, dirs, files, scanned, image_files,
                 conversion_tasks, successful, failed, fut, yielded, worker, summary>>

\* main, lines 99 to 102: executor.submit of the next task.  The work item
\* is queued and a thread is started while fewer than max_workers run.
Submit ==
  /\ pc = "submit"
  /\ Len(fut) < Len(conversion_tasks)
  /\ fut' = Append(fut, [state |-> "pending", result |-> "none", starts |-> 0])
  /\ executor' = [executor EXCEPT
                    !.queue = Append(@, Len(fut) + 1),
                    !.threads = IF @ < executor.max_workers THEN @ + 1 ELSE @]
  /\ pc' = IF Len(fut) + 1 = Len(conversion_tasks) THEN "collect" ELSE "submit"
  /\ UNCHANGED <<run, files1, errlog, args, inKind, listing, disk, mkdirFails, dirs, files, exit_code, console,
                 scanned, image_files, conversion_tasks, successful, failed, yielded,
                 worker, summary>>

\* Tally without line 113: an outcome that raised is logged and not counted.
TallyForgetsRaised(result) ==
  CASE result = "true" -> [successful |-> 1, failed |-> 0, log |-> {}]
    [] result = "false" -> [successful |-> 0, failed |-> 1, log |-> {}]
    [] result = "raised" -> [successful |-> 0, failed |-> 0, log |-> {"unexpected"}]

\* A loop body without the test of line 107: every returned value counts
\* as a success.
TallyIgnoresResult(result) ==
  CASE result = "true" -> [successful |-> 1, failed |-> 0, log |-> {}]
    [] result = "false" -> [successful |-> 1, failed |-> 0, log |-> {}]
    [] result = "raised" -> [successful |-> 0, failed |-> 1, log |-> {"unexpected"}]

\* main, lines 106 to 113: what one consumed outcome adds to the counters
\* and to the console.
Tally(result) ==
  CASE result = "true" -> [successful |-> 1, failed |-> 0, log |-> {}]
    [] result = "false" -> [successful |-> 0, failed |-> 1, log |-> {}]
    [] result = "raised" -> [successful |-> 0, failed |-> 1, log |-> {"unexpected"}]

\* The loop left at the first completed future.
LoopDoneAtFirst(seen) == seen # {}

\* main, line 104: as_completed is exhausted once it has yielded every
\* future of future_to_task.
LoopDone(seen) == seen = 1..Len(fut)

\* The loop with a timeout on as_completed: when no future is ready the
\* wait may end with TimeoutError, which leaves main.
CollectWithTimeout ==
  /\ pc = "collect"
  /\ \/ \E t \in (1..Len(fut)) \ yielded :
          /\ fut[t].state = "finished"
          /\ yielded' = yielded \cup {t}
          /\ successful' = successful + Tally(fut[t].result).successful
          /\ failed' = failed + Tally(fut[t].result).failed
          /\ console' = console \cup Tally(fut[t].result).log
          /\ errlog' = IF Tally(fut[t].result).log = {} THEN errlog
                       ELSE errlog \cup {conversion_tasks[t][1]}
          /\ pc' = IF LoopDone(yielded \cup {t}) THEN "shutdown" ELSE "collect"
          /\ UNCHANGED exit_code
     \/ /\ \A t \in (1..Len(fut)) \ yielded : fut[t].state # "finished"
        /\ console' = console \cup {"traceback"}
        /\ exit_code' = 1
        /\ pc' = "exit"
        /\ UNCHANGED <<yielded, successful, failed, errlog>>
  /\ UNCHANGED <<run, files1, args, inKind, listing, disk, mkdirFails, dirs, files, scanned,
                 image_files, conversion_tasks, executor, fut, worker, summary>>

\* The loop without the try/except of lines 106 to 113: the exception that
\* future.result() raises again leaves main.
CollectUncaught ==
  /\ pc = "collect"
  /\ \E t \in (1..Len(fut)) \ yielded :
       /\ fut[t].state = "finished"
       /\ yielded' = yielded \cup {t}
       /\ IF fut[t].result = "raised"
          THEN /\ console' = console \cup {"traceback"}
               /\ exit_code' = 1
               /\ pc' = "exit"
               /\ UNCHANGED <<successful, failed, errlog>>
          ELSE /\ successful' = successful + Tally(fut[t].result).successful
               /\ failed' = failed + Tally(fut[t].result).failed
               /\ pc' = IF LoopDone(yielded \cup {t}) THEN "shutdown" ELSE "collect"
               /\ UNCHANGED <<console, exit_code, errlog>>
  /\ UNCHANGED <<run, files1, args, inKind, listing, disk, mkdirFails, dirs, files, scanned,
                 image_files, conversion_tasks, executor, fut, worker, summary>>

\* main, lines 104 to 113: as_completed yields a finished future that it
\* has not yielded yet, and the loop body tallies it.
Collect ==
  /\ pc = "collect"
  /\ \E t \in (1..Len(fut)) \ yielded :
       /\ fut[t].state = "finished"
       /\ yielded' = yielded \cup {t}
       /\ LET add == Tally(fut[t].result)
          IN /\ successful' = successful + add.successful
             /\ failed' = failed + add.failed
             /\ console' = console \cup add.log
             /\ errlog' = IF add.log = {} THEN errlog
                          ELSE errlog \cup {conversion_tasks[t][1]}
       /\ pc' = IF LoopDone(yielded \cup {t}) THEN "shutdown" ELSE "collect"
  /\ UNCHANGED <<run, files1, args, inKind, listing, disk, mkdirFails, dirs, files, exit_code, scanned,
                 image_files, conversion_tasks, executor, fut, worker, summary>>

\* main, line 98: leaving the with block is executor.shutdown(wait=True),
\* which returns once the queue is empty and every thread has ended.
Shutdown ==
  /\ pc = "shutdown"
  /\ executor.queue = <<>>
  /\ \A w \in ThreadIds : worker[w].pc = "idle"
  /\ pc' = "summary"
  /\ UNCHANGED <<run, files1, errlog, args, inKind, listing, disk, mkdirFails, dirs, files, exit_code, console,
                 scanned, image_files, conversion_tasks, successful, failed, executor,
                 fut, yielded, worker, summary>>

\* An exit code that reports failed files.
ExitCodeByFailures == IF failed > 0 THEN 1 ELSE 0

\* main returns after the summary: the process ends with code 0.
FinalExitCode == 0

\* main, lines 115 to 119, and the return of main.
Summary ==
  /\ pc = "summary"
  /\ summary' = [successful |-> successful, failed |-> failed,
                 total |-> successful + failed]
  /\ console' = console \cup {"summary"}
  /\ exit_code' = FinalExitCode
  /\ pc' = "exit"
  /\ UNCHANGED <<run, files1, errlog, args, inKind, listing, disk, mkdirFails, dirs, files, scanned, image_files,
                 conversion_tasks, successful, failed, executor, fut, yielded, worker>>

\* ---------------------------------------------------------- pool threads
\* convert_image, lines 10 to 20, for the file at input_path: the thread's
\* next step and the image it holds.  Image.open may raise; the
\* normalisation to RGB loads the pixel data of every mode but RGB, so bad
\* pixel data raises here for those modes only.
ConvertOpen(input_path) ==
  LET entry == Lookup(input_path)
  IN IF \/ entry.fault \in {"open", "open_raise"}
        \/ entry.fault = "convert" /\ entry.img.mode # "RGB"
     THEN [pc |-> "except", img |-> NoImage]
     ELSE [pc |-> "makedirs", img |-> Normalize(entry.img)]

\* A pool thread takes the work item at the head of the queue and runs
\* convert_image up to the directory creation (these steps touch nothing
\* shared).  The threads are interchangeable, so the idle thread of least
\* index takes the item.
WorkerStart(w) ==
  /\ executor.created
  /\ w <= executor.threads
  /\ worker[w].pc = "idle"
  /\ \A v \in 1..(w - 1) : worker[v].pc # "idle"
  /\ executor.queue # <<>>
  /\ LET t == Head(executor.queue)
         opened == ConvertOpen(conversion_tasks[t][1])
     IN /\ worker' = [worker EXCEPT ![w] = [pc |-> opened.pc, task |-> t,
                                           img |-> opened.img]]
        /\ fut' = [fut EXCEPT ![t].state = "running", ![t].starts = @ + 1]
  /\ executor' = [executor EXCEPT !.queue = Tail(@)]
  /\ UNCHANGED <<run, files1, errlog, args, inKind, listing, disk, mkdirFails, dirs, files, pc, exit_code,
                 console, scanned, image_files, conversion_tasks, successful, failed,
                 yielded, summary>>

\* os.makedirs that takes an existing directory as an error whatever
\* exist_ok is.
makedirsNoExistOk(name, exist_ok) ==
  IF name \in dirs THEN [raised |-> TRUE, dirs |-> dirs]
  ELSE IF name = <<>> \/ mkdirFails THEN [raised |-> TRUE, dirs |-> dirs]
  ELSE [raised |-> FALSE, dirs |-> dirs \cup {name}]

\* os.makedirs(name, exist_ok): an existing directory is left alone, or is
\* an error without exist_ok; the empty path and a directory that cannot be
\* created raise.
makedirs(name, exist_ok) ==
  IF name \in dirs THEN [raised |-> ~exist_ok, dirs |-> dirs]
  ELSE IF name = <<>> \/ mkdirFails THEN [raised |-> TRUE, dirs |-> dirs]
  ELSE [raised |-> FALSE, dirs |-> dirs \cup {name}]

\* convert_image, line 23.
ConvertMakedirs(w) ==
  /\ worker[w].pc = "makedirs"
  /\ LET made == makedirs(dirname(conversion_tasks[worker[w].task][2]), TRUE)
     IN /\ dirs' = made.dirs
        /\ worker' = [worker EXCEPT ![w].pc = IF made.raised THEN "except" ELSE "save"]
  /\ UNCHANGED <<run, files1, errlog, args, inKind, listing, disk, mkdirFails, files, pc, exit_code, console,
                 scanned, image_files, conversion_tasks, successful, failed, executor,
                 fut, yielded, summary>>

\* An encoder that stamps the bytes with the invocation that wrote them.
EncodeStamped(img, quality) ==
  [i \in 1..Len(img.px) |-> [format |-> "WEBP", img |-> img, quality |-> quality + run]]

\* img.save(output_path, 'WEBP', quality=quality, method=6): the bytes
\* written, a function of the image handed over and of the quality.  They
\* are a sequence of blocks, one per pixel: encodings of different images
\* differ in length.
Encode(img, quality) ==
  [i \in 1..Len(img.px) |-> [format |-> "WEBP", img |-> img, quality |-> quality]]

\* What a file holds after data is written at its start: the data, and
\* what the file held beyond the data's length.
WriteAtStart(data, held) ==
  [i \in 1..(IF Len(data) >= Len(held) THEN Len(data) ELSE Len(held)) |->
     IF i <= Len(data) THEN data[i] ELSE held[i]]

\* What the file at a path holds; nothing if there is none.
Held(path) ==
  IF \E f \in files : f.path = path
  THEN (CHOOSE f \in files : f.path = path).bytes
  ELSE <<>>

\* convert_image, line 26, first part: img.save opens output_path for
\* writing, which creates the file or empties the one that is there.
ConvertSave(w) ==
  /\ worker[w].pc = "save"
  /\ LET task == conversion_tasks[worker[w].task]
         entry == Lookup(task[1])
     IN IF entry.fault \in {"save", "convert"}
        THEN /\ worker' = [worker EXCEPT ![w].pc = "except"]
             /\ UNCHANGED files
        ELSE /\ worker' = [worker EXCEPT ![w].pc = "write"]
             /\ files' = {f \in files : f.path # task[2]} \cup
                           {[path |-> task[2], bytes |-> <<>>]}
  /\ UNCHANGED <<run, files1, errlog, args, inKind, listing, disk, mkdirFails, dirs, pc, exit_code, console,
                 scanned, image_files, conversion_tasks, successful, failed, executor,
                 fut, yielded, summary>>

\* convert_image, line 26, second part: img.save encodes the image, writes
\* the bytes at the start of the file it opened and closes it.
ConvertWrite(w) ==
  /\ worker[w].pc = "write"
  /\ LET task == conversion_tasks[worker[w].task]
     IN files' = {f \in files : f.path # task[2]} \cup
                   {[path |-> task[2],
                     bytes |-> WriteAtStart(Encode(worker[w].img, args.quality),
                                            Held(task[2]))]}
  /\ worker' = [worker EXCEPT ![w].pc = "return_true"]
  /\ UNCHANGED <<run, files1, errlog, args, inKind, listing, disk, mkdirFails, dirs, pc, exit_code, console,
                 scanned, image_files, conversion_tasks, successful, failed, executor,
                 fut, yielded, summary>>

\* A convert_image that returns True from its handler too.
ConvertResultAlwaysTrue(w) == "true"

\* convert_image without its try/except: the exception leaves the call.
ConvertResultUncaught(w) ==
  IF worker[w].pc = "return_true" THEN "true" ELSE "raised"

\* convert_image, lines 27 to 32: what the call ends with.  After the save
\* it prints and returns True; in the handler it prints and returns False,
\* unless the handler itself raises.
ConvertResult(w) ==
  IF worker[w].pc = "return_true" THEN "true"
  ELSE IF Lookup(conversion_tasks[worker[w].task][1]).fault = "open_raise" THEN "raised"
  ELSE "false"

\* The end of the work item: the future takes the call's result or its
\* exception, and the thread goes back to the queue.
WorkerFinish(w) ==
  /\ worker[w].pc \in {"return_true", "except"}
  /\ fut' = [fut EXCEPT ![worker[w].task].state = "finished",
                        ![worker[w].task].result = ConvertResult(w)]
  /\ console' = console \cup {IF ConvertResult(w) = "true" THEN "converted"
                              ELSE "failed_to_convert"}
  /\ worker' = [worker EXCEPT ![w] = IdleThread]
  /\ UNCHANGED <<run, files1, errlog, args, inKind, listing, disk, mkdirFails, dirs, files, pc, exit_code, scanned,
                 image_files, conversion_tasks, successful, failed, executor, yielded,
                 summary>>

\* --------------------------------------------------------- specifications
Next ==
  \/ ValidateInput
  \/ ValidateQuality
  \/ Scan
  \/ CheckEmpty
  \/ BuildTasks
  \/ CreatePool
  \/ Submit
  \/ Collect
  \/ Shutdown
  \/ Summary
  \/ \E w \in ThreadIds : WorkerStart(w)
  \/ \E w \in ThreadIds : ConvertMakedirs(w)
  \/ \E w \in ThreadIds : ConvertSave(w)
  \/ \E w \in ThreadIds : ConvertWrite(w)
  \/ \E w \in ThreadIds : WorkerFinish(w)

Spec == Init /\ [][Next]_vars

\* The defaults of --quality and --jobs.
DefaultQuality == 80
DefaultJobs == 4

\* Runs over every kind of directory entry: the names with each of the
\* extensions, in upper case, without a dot, with the extension inside the
\* name, directories, and a subdirectory that holds an image.
ScanNames == {NameAPng, NameAJpg, NameFPNG, NameGTiff, NameHBmp, NameKJpeg, NameCTxt,
              NameSub, NameJPngDir, NameDotPng, NamePng, NamePngTxt}

InitScan ==
  /\ args = [input_dir |-> InputDir, output |-> OutputDir,
             quality |-> DefaultQuality, jobs |-> 1]
  /\ inKind = "dir"
  /\ listing \in Listings(ScanNames, MaxEntries)
  /\ disk = DiskOf(Range(listing))
  /\ mkdirFails = FALSE
  /\ dirs = {}
  /\ InitProgram

SpecScan == InitScan /\ [][Next]_vars

\* Runs over one file holding every image of the modes RGBA, LA, P, L, RGB
\* and 1 with up to MaxPixels pixels of these values.
Colors == {<<0, 0, 0>>, <<10, 20, 30>>, <<255, 255, 255>>}
Alphas == {0, 128, 255}
Grays == {0, 90, 255}
PaletteEntries == {<<0, 0, 0, 0>>, <<50, 60, 70, 255>>, <<200, 0, 0, 128>>}

PixelsOf(mode) ==
  CASE mode = "RGBA" -> {<<c[1], c[2], c[3], a>> : c \in Colors, a \in Alphas}
    [] mode = "LA" -> {<<l, a>> : l \in Grays, a \in Alphas}
    [] mode = "L" -> {<<l>> : l \in Grays}
    [] mode = "RGB" -> Colors
    [] mode = "P" -> {<<1>>, <<2>>}
    [] mode = "1" -> {<<0>>, <<255>>}

Images ==
  UNION {{Img(mode, px, palette) :
            px \in UNION {[1..k -> PixelsOf(mode)] : k \in 1..MaxPixels},
            palette \in (IF mode = "P" THEN [1..2 -> PaletteEntries] ELSE {<<>>})} :
         mode \in {"RGBA", "LA", "P", "L", "RGB", "1"}}

InitImage ==
  /\ args = [input_dir |-> InputDir, output |-> OutputDir,
             quality |-> DefaultQuality, jobs |-> DefaultJobs]
  /\ inKind = "dir"
  /\ listing = <<NameAPng>>
  /\ \E img \in Images, fault \in {"none", "convert", "save"} :
       disk = [n \in {NameAPng} |-> Entry("file", fault, img)]
  /\ mkdirFails = FALSE
  /\ dirs = {}
  /\ InitProgram

SpecImage == InitImage /\ [][Next]_vars

\* Two invocations with the same arguments on the same directories: the
\* second one starts when the first has ended, and finds the output
\* directory and the files the first one left.
Restart ==
  /\ pc = "exit"
  /\ run = 1
  /\ run' = 2
  /\ files1' = files
  /\ pc' = "validate_input"
  /\ exit_code' = NotExited
  /\ console' = {}
  /\ errlog' = {}
  /\ scanned' = FALSE
  /\ image_files' = <<>>
  /\ conversion_tasks' = <<>>
  /\ successful' = 0
  /\ failed' = 0
  /\ executor' = [created |-> FALSE, max_workers |-> 0, threads |-> 0, queue |-> <<>>]
  /\ fut' = <<>>
  /\ yielded' = {}
  /\ worker' = [w \in ThreadIds |-> IdleThread]
  /\ summary' = NoSummary
  /\ UNCHANGED <<args, inKind, listing, disk, mkdirFails, dirs, files>>

NextTwice == Next \/ Restart

TwiceNames == {NameAPng, NameAJpg, NameEPng, NameDPng}

InitTwice ==
  /\ \E j \in 1..MaxJobs :
       args = [input_dir |-> InputDir, output |-> OutputDir,
               quality |-> DefaultQuality, jobs |-> j]
  /\ inKind = "dir"
  /\ listing \in Listings(TwiceNames, MaxEntries)
  /\ disk = DiskOf(Range(listing))
  /\ mkdirFails = FALSE
  /\ dirs = {}
  /\ InitProgram

SpecTwice == InitTwice /\ [][NextTwice]_vars

\* Runs over a directory of two valid files, one unreadable file with a
\* matching name and one file with another extension, listed in every
\* order, and over the shorter listings of these and of a file whose
\* conversion raises.
TallyScenario == {NameAPng, NameBJpg, NameCTxt, NameDPng}

TallyNames == TallyScenario \cup {NameRPng}

InitTally ==
  /\ \E j \in 1..MaxJobs :
       args = [input_dir |-> InputDir, output |-> OutputDir,
               quality |-> DefaultQuality, jobs |-> j]
  /\ inKind = "dir"
  /\ listing \in Listings(TallyNames, MaxEntries) \cup
                  {s \in Listings(TallyScenario, Cardinality(TallyScenario)) :
                     Len(s) = Cardinality(TallyScenario)}
  /\ disk = DiskOf(Range(listing))
  /\ mkdirFails = FALSE
  /\ dirs = {}
  /\ InitProgram

SpecTally == InitTally /\ [][Next]_vars

\* The steps of the main thread and those of one pool thread.
Coordinator ==
  \/ ValidateInput
  \/ ValidateQuality
  \/ Scan
  \/ CheckEmpty
  \/ BuildTasks
  \/ CreatePool
  \/ Submit
  \/ Collect
  \/ Shutdown
  \/ Summary

WorkerStep(w) ==
  \/ WorkerStart(w)
  \/ ConvertMakedirs(w)
  \/ ConvertSave(w)
  \/ ConvertWrite(w)
  \/ WorkerFinish(w)

\* The main thread is scheduled while it can take a step, and so is the
\* pool while one of its threads can; every call returns.
Fairness ==
  /\ WF_vars(Coordinator)
  /\ WF_vars(\E w \in ThreadIds : WorkerStep(w))

LiveNames == {NameAPng, NameAJpg, NameDPng, NameRPng}

InitLive ==
  /\ \E j \in 1..MaxJobs :
       args = [input_dir |-> InputDir, output |-> OutputDir,
               quality |-> DefaultQuality, jobs |-> j]
  /\ inKind = "dir"
  /\ listing \in Listings(LiveNames, MaxEntries)
  /\ disk = DiskOf(Range(listing))
  /\ mkdirFails = FALSE
  /\ dirs = {}
  /\ InitProgram

SpecLive == InitLive /\ [][Next]_vars /\ Fairness

\* ============================================================== properties
\* The pool threads that hold a work item.
InFlight == {w \in ThreadIds : worker[w].pc # "idle"}

\* The number of discovered files.
N == Len(image_files)

\* The run has left the with block of the pool: it is at the summary or
\* has printed it.
Drained == executor.created /\ pc \in {"summary", "exit"}

\* C1: when the run reaches the final summary, the coordinator has consumed
\* exactly N outcomes, N >= 1 being the number of discovered files, and
\* successful + failed = total = N, for every pool size and interleaving.
C1_ExactlyNOutcomes ==
  /\ Drained =>
       /\ N >= 1
       /\ Cardinality(yielded) = N
       /\ successful + failed = N
  /\ summary # NoSummary =>
       /\ summary.successful + summary.failed = N
       /\ summary.total = N

C1_Witness ==
  /\ summary # NoSummary
  /\ N >= 3
  /\ args.jobs >= 2
  /\ summary.successful >= 1
  /\ summary.failed >= 1

\* C2: no task is ever held by two threads or started twice, a finished
\* task is neither queued nor held, and once the run has left the pool
\* every submitted task has been started once, has finished and has been
\* consumed, with nothing queued and no thread busy.
C2_DrainedAfterEveryOutcome ==
  /\ \A t \in 1..Len(fut) :
       /\ fut[t].starts <= 1
       /\ Cardinality({w \in ThreadIds : worker[w].task = t}) <= 1
       /\ fut[t].state = "finished" =>
            /\ fut[t].starts = 1
            /\ \A w \in ThreadIds : worker[w].task # t
            /\ t \notin Range(executor.queue)
  /\ Drained =>
       /\ Len(fut) = Len(conversion_tasks)
       /\ \A t \in 1..Len(fut) :
            fut[t].state = "finished" /\ fut[t].starts = 1 /\ t \in yielded
       /\ executor.queue = <<>>
       /\ InFlight = {}

C2_Witness ==
  /\ Drained
  /\ Len(fut) >= 3
  /\ args.jobs >= 2
  /\ \E t \in 1..Len(fut) : fut[t].result = "false"

\* C3: with a pool of size P >= 1 at most P tasks are being executed at
\* any time, and every submitted task that is neither finished nor being
\* executed by exactly one thread waits in the queue, once.
C3_AtMostPInFlight ==
  executor.created =>
    /\ Cardinality(InFlight) <= args.jobs
    /\ \A t \in 1..Len(fut) :
         /\ fut[t].state = "pending" <=> t \in Range(executor.queue)
         /\ fut[t].state = "running" <=>
              Cardinality({w \in ThreadIds : worker[w].task = t}) = 1
    /\ Len(executor.queue) = Cardinality(Range(executor.queue))

C3_Witness ==
  /\ executor.created
  /\ Cardinality(InFlight) = args.jobs
  /\ args.jobs >= 2
  /\ executor.queue # <<>>

\* What a conversion ends with when only its own file and the output
\* directory decide it.
OwnOutcome(t) ==
  LET entry == Lookup(conversion_tasks[t][1])
  IN IF entry.fault = "open_raise" THEN "raised"
     ELSE IF entry.fault # "none" \/ mkdirFails THEN "false"
     ELSE "true"

\* C4: a failure at any step of a conversion becomes the Failure outcome of
\* that task only: every finished task has the outcome its own file
\* decides, whatever the other tasks did, and at the summary every task
\* has run to its outcome.
C4_FailureIsolated ==
  /\ \A t \in 1..Len(fut) :
       fut[t].state = "finished" => fut[t].result = OwnOutcome(t)
  /\ summary # NoSummary =>
       /\ Len(fut) = N
       /\ \A t \in 1..Len(fut) : fut[t].state = "finished"
       /\ summary.successful =
            Cardinality({t \in 1..Len(fut) : OwnOutcome(t) = "true"})

C4_Witness ==
  /\ summary # NoSummary
  /\ args.jobs >= 2
  /\ \E t1, t2, t3 \in 1..Len(fut) :
       /\ t1 < t2
       /\ t2 < t3
       /\ fut[t1].result = "false"
       /\ fut[t2].result = "true"
       /\ fut[t3].result = "false"
  /\ \E f \in files : TRUE

\* C5: the quality is accepted exactly when it lies in 0..100: a run goes
\* past the validation only with such a quality and is never rejected for
\* one, and a run with any other quality scans nothing, submits nothing,
\* writes nothing and ends with exit code 1.
C5_QualityRange ==
  /\ "banner" \in console => args.quality \in 0..100
  /\ args.quality \in 0..100 => "bad_quality" \notin console
  /\ (args.quality \in 0..100 /\ inKind # "missing"
        /\ pc \notin {"validate_input", "validate_quality"}) => "banner" \in console
  /\ args.quality \notin 0..100 =>
       /\ ~scanned
       /\ image_files = <<>>
       /\ conversion_tasks = <<>>
       /\ ~executor.created
       /\ fut = <<>>
       /\ files = {}
       /\ dirs = {}
       /\ pc \in {"validate_input", "validate_quality", "exit"}
       /\ pc = "exit" => exit_code = 1

C5_Witness ==
  /\ args.quality = 101
  /\ inKind = "dir"
  /\ listing # <<>>
  /\ pc = "exit"
  /\ exit_code = 1
  /\ "bad_quality" \in console

\* The run got past pre-flight with at least one discovered image.
PastPreflight ==
  /\ inKind # "missing"
  /\ args.quality \in 0..100
  /\ scanned
  /\ image_files # <<>>

\* One of the three pre-flight errors has happened.
PreflightError ==
  \/ inKind = "missing"
  \/ args.quality \notin 0..100
  \/ scanned /\ image_files = <<>>

\* C6 as stated: every run that gets past pre-flight with at least one
\* image ends with exit code 0, and a non-zero exit code is 1 and comes
\* only from a missing input directory, an out-of-range quality or zero
\* images discovered.
C6_ExitCodeAsStated ==
  pc = "exit" =>
    /\ PastPreflight => exit_code = 0
    /\ exit_code # 0 => exit_code = 1 /\ PreflightError

\* C6 as amended: with --jobs >= 1 every run that gets past pre-flight with
\* at least one image ends with exit code 0 whatever the number of failed
\* files; a non-zero exit code is 1 and comes only from a missing input
\* directory, an out-of-range quality, zero images discovered, or a --jobs
\* value below 1, which ends the run with an uncaught error when the pool
\* is constructed.
C6_ExitCodeAmended ==
  pc = "exit" =>
    /\ exit_code \in {0, 1}
    /\ (PastPreflight /\ args.jobs >= 1) => exit_code = 0 /\ summary # NoSummary
    /\ (PastPreflight /\ args.jobs <= 0) => exit_code = 1 /\ "traceback" \in console
    /\ exit_code # 0 => PreflightError \/ (PastPreflight /\ args.jobs <= 0)
    /\ PreflightError => exit_code = 1

C6_Witness ==
  /\ pc = "exit"
  /\ exit_code = 0
  /\ summary.successful = 0
  /\ summary.failed >= 2
  /\ summary.failed = N

\* C7: in a run with a pre-flight error no worker pool is created, no task
\* is submitted or started and no output directory or file is created, and
\* once the error is reported the process has ended with a non-zero code.
C7_PreflightBeforeWork ==
  /\ PreflightError =>
       /\ ~executor.created
       /\ fut = <<>>
       /\ InFlight = {}
       /\ dirs = {}
       /\ files = {}
  /\ console \cap {"input_missing", "bad_quality", "no_images"} # {} =>
       /\ pc = "exit"
       /\ exit_code # 0
       /\ exit_code # NotExited
  /\ (PreflightError /\ pc \notin {"validate_input", "validate_quality", "scan",
                                  "check_empty"}) =>
       /\ pc = "exit"
       /\ console \cap {"input_missing", "bad_quality", "no_images"} # {}

C7_Witness ==
  /\ pc = "exit"
  /\ "no_images" \in console
  /\ listing = <<NameCTxt>>
  /\ args.jobs >= 1
  /\ exit_code = 1

\* C8: when the input path exists and its listing fails, the scanner
\* reports the error and returns the empty sequence, and the run ends
\* through "no images found" with exit code 1, without a pool, a
\* conversion or an uncaught error.
C8_ScanFailsSoftly ==
  (inKind \in {"file", "noperm"} /\ scanned) =>
    /\ "scan_error" \in console
    /\ image_files = <<>>
    /\ pc \in {"check_empty", "exit"}
    /\ pc = "exit" => "no_images" \in console /\ exit_code = 1
    /\ "traceback" \notin console
    /\ ~executor.created
    /\ fut = <<>>
    /\ files = {}
    /\ dirs = {}

C8_Witness ==
  /\ inKind = "noperm"
  /\ scanned
  /\ pc = "exit"
  /\ "no_images" \in console
  /\ exit_code = 1

\* The place of a name in the listing.
PlaceOf(name) == CHOOSE i \in 1..Len(listing) : listing[i] = name

\* A name the scanner is to keep: a regular file whose lowercased name
\* ends with .png, .jpg, .jpeg, .bmp or .tiff.
Wanted(name) ==
  /\ disk[name].kind = "file"
  /\ \E k \in 1..Len(extensions) :
       LET ext == extensions[k]
           low == lower(name)
       IN /\ Len(low) >= Len(ext)
          /\ \A i \in 1..Len(ext) : low[Len(low) - Len(ext) + i] = ext[i]

\* C9: the scanner returns exactly the direct children of the input
\* directory that are regular files with one of the five extensions
\* (case-insensitively), each once and in listing order; other names,
\* directories and files of subdirectories are in no result, task or
\* outcome.
C9_ScanExact ==
  scanned =>
    /\ \A i \in 1..Len(image_files) :
         \E n \in Range(listing) :
           Wanted(n) /\ image_files[i] = InputDir \o <<"/">> \o n
    /\ \A n \in Range(listing) :
         Wanted(n) => InputDir \o <<"/">> \o n \in Range(image_files)
    /\ \A i, j \in 1..Len(image_files) :
         i < j =>
           PlaceOf(SubSeq(image_files[i], Len(InputDir) + 2, Len(image_files[i])))
             < PlaceOf(SubSeq(image_files[j], Len(InputDir) + 2, Len(image_files[j])))
    /\ \A t \in 1..Len(conversion_tasks) : conversion_tasks[t][1] = image_files[t]
    /\ Len(conversion_tasks) \in {0, Len(image_files)}
    /\ Len(fut) <= Len(image_files)

C9_Witness ==
  /\ scanned
  /\ summary # NoSummary
  /\ listing = <<NameSub, NameFPNG, NameCTxt>>
  /\ image_files = <<InputDir \o <<"/">> \o NameFPNG>>

\* The alpha of pixel i of a decoded image of mode RGBA, LA or P.
AlphaOf(img, i) ==
  CASE img.mode = "RGBA" -> img.px[i][4]
    [] img.mode = "LA" -> img.px[i][2]
    [] img.mode = "P" -> img.palette[img.px[i][1]][4]

\* C10: for an input of mode RGBA, LA or P the image handed to the encoder
\* is RGB, without transparency, and each fully transparent pixel of the
\* input is white in it.
C10_TransparentIsWhite ==
  \A f \in {g \in files : g.bytes # <<>>} :
    LET src == disk[NameAPng].img
        out == f.bytes[1].img
    IN src.mode \in {"RGBA", "LA", "P"} =>
         /\ out.mode = "RGB"
         /\ Len(out.px) = Len(src.px)
         /\ \A i \in 1..Len(src.px) :
              /\ Len(out.px[i]) = 3
              /\ AlphaOf(src, i) = 0 => out.px[i] = White

\* The tasks have pairwise different output paths.
DistinctOutputs ==
  \A i, j \in DOMAIN conversion_tasks :
    i # j => conversion_tasks[i][2] # conversion_tasks[j][2]

\* C11 as stated: when the second of two invocations with the same
\* arguments ends, every output file holds what it held when the first one
\* ended, for every parallelism and every interleaving.
C11_TwiceSameContent == (run = 2 /\ pc = "exit") => files = files1

\* C11, amended: the two invocations end with the same content in every
\* output file when the workers run one at a time or no two discovered
\* files share an output path.
C11_TwiceSameContentAmended ==
  (run = 2 /\ pc = "exit" /\ (args.jobs = 1 \/ DistinctOutputs)) => files = files1

C11_Witness ==
  /\ run = 2 /\ pc = "exit" /\ args.jobs = MaxJobs
  /\ Len(conversion_tasks) >= 2 /\ DistinctOutputs
  /\ successful >= 2
  /\ files = files1

\* The task list has been built (line 92 has run for every discovered file).
Built == pc \in {"pool", "submit", "collect", "shutdown", "summary"} \/ executor.created

\* A name with what starts at its last dot removed.
CutAtLastDot(name) ==
  LET dots == {i \in 1..Len(name) : name[i] = "."}
  IN IF dots = {} THEN name
     ELSE SubSeq(name, 1, (CHOOSE i \in dots : \A j \in dots : j <= i) - 1)

\* The same, except that a name whose last dot has nothing but dots before
\* it (a name such as .png) is left whole.
CutAtLastDotUnlessLeading(name) ==
  IF \A i \in 1..Len(CutAtLastDot(name)) : name[i] = "." THEN name
  ELSE CutAtLastDot(name)

\* Every task is the pair of its discovered file, in scan order, and of the
\* output directory joined with Stem of the file's base name and .webp;
\* every written file is that of a task and lies directly in the output
\* directory; each task that returned True has its file there.
TasksAsBuilt(Stem(_)) ==
  /\ Built =>
       /\ Len(conversion_tasks) = Len(image_files)
       /\ \A t \in 1..Len(image_files) :
            /\ conversion_tasks[t][1] = image_files[t]
            /\ conversion_tasks[t][2] =
                 OutputDir \o <<"/">> \o
                   Stem(SubSeq(image_files[t], Len(InputDir) + 2, Len(image_files[t])))
                   \o <<".", "w", "e", "b", "p">>
  /\ \A f \in files :
       /\ \E t \in 1..Len(conversion_tasks) : f.path = conversion_tasks[t][2]
       /\ Len(f.path) > Len(OutputDir) + 1
       /\ SubSeq(f.path, 1, Len(OutputDir) + 1) = OutputDir \o <<"/">>
       /\ \A i \in (Len(OutputDir) + 2)..Len(f.path) : f.path[i] # "/"
  /\ \A t \in 1..Len(fut) :
       fut[t].result = "true" => \E f \in files : f.path = conversion_tasks[t][2]

\* The step that builds the tasks changes no file and no directory.
BuildTouchesNothing ==
  pc = "build" => (files' = files /\ dirs' = dirs /\ disk' = disk /\ listing' = listing)

Succeeded == {t \in 1..Len(fut) : fut[t].result = "true"}

\* The counters are those of the outcomes consumed so far, and at the
\* summary those of all tasks; the directory of the example gives 2 and 1.
TalliesExact ==
  /\ executor.created =>
       /\ successful = Cardinality(yielded \cap Succeeded)
       /\ failed = Cardinality(yielded \ Succeeded)
  /\ summary # NoSummary =>
       /\ summary.successful = Cardinality(Succeeded)
       /\ summary.failed = Len(conversion_tasks) - Cardinality(Succeeded)
       /\ summary.total = Len(conversion_tasks)
       /\ Range(listing) = TallyScenario =>
            /\ summary.successful = 2 /\ summary.failed = 1
            /\ \A t \in 1..Len(conversion_tasks) :
                 conversion_tasks[t][1] # InputDir \o <<"/">> \o NameCTxt

\* A step that consumes an outcome adds 1 to exactly one counter, and a step
\* that changes a counter is the coordinator consuming one outcome: no
\* thread of the pool moves in it.
TallyStep ==
  /\ yielded' # yielded =>
       /\ Cardinality(yielded') = Cardinality(yielded) + 1
       /\ \/ successful' = successful + 1 /\ failed' = failed
          \/ successful' = successful /\ failed' = failed + 1
  /\ (successful' # successful \/ failed' # failed) =>
       /\ pc = "collect"
       /\ yielded' # yielded
       /\ worker' = worker /\ fut' = fut /\ executor' = executor

\* C13: at the summary successful is the number of tasks whose conversion
\* returned success and failed the number of the others, for every
\* parallelism and completion order; each consumed outcome adds exactly 1 to
\* exactly one counter and only the coordinator changes the counters; two
\* valid files, one unreadable matching file and one non-matching file give
\* 2 successes and 1 failure.
C13_TalliesExact == []TalliesExact /\ [][TallyStep]_vars

C13_Witness ==
  /\ Range(listing) = TallyScenario
  /\ args.jobs = MaxJobs
  /\ summary # NoSummary /\ summary.successful = 2 /\ summary.failed = 1
  /\ \E t1, t2 \in yielded : t1 < t2 /\ fut[t1].result = "false" /\ fut[t2].result = "true"

\* The tasks whose conversion ended by raising.
Raised == {t \in 1..Len(fut) : fut[t].result = "raised"}

\* The raised outcomes consumed so far are logged with their input paths,
\* and nothing else is; each is one of the failed; a run in which one was
\* consumed ends only after every outcome was consumed and the summary
\* printed.
RaisedIsLoggedAndCounted ==
  /\ errlog = {conversion_tasks[t][1] : t \in yielded \cap Raised}
  /\ errlog # {} => "unexpected" \in console
  /\ executor.created => failed = Cardinality(yielded \ Succeeded)
  /\ (errlog # {} /\ pc \in {"shutdown", "summary", "exit"}) =>
       /\ yielded = 1..Len(conversion_tasks)
       /\ "traceback" \notin console
  /\ (errlog # {} /\ pc = "exit") =>
       /\ summary # NoSummary
       /\ summary.total = Len(conversion_tasks)

\* The step that consumes a raised outcome adds 1 to failed and nothing to
\* successful, and stays in the loop while outcomes remain.
RaisedStep ==
  (\E t \in Raised : t \notin yielded /\ t \in yielded') =>
    /\ failed' = failed + 1
    /\ successful' = successful
    /\ pc' = IF yielded' = 1..Len(fut) THEN "shutdown" ELSE "collect"

\* C14: when a worker ends by raising instead of returning a value, the
\* coordinator logs it with the task's input path, counts the task as failed
\* exactly once, and goes on consuming the remaining outcomes until all are
\* tallied.
C14_RaisedLoggedCountedOnce == []RaisedIsLoggedAndCounted /\ [][RaisedStep]_vars

C14_Witness ==
  /\ pc = "exit" /\ summary # NoSummary
  /\ Len(conversion_tasks) = 3
  /\ \E t \in Raised : t = 1 /\ image_files[t] \in errlog
  /\ \E t \in Succeeded : t > 1
  /\ summary.failed >= 1 /\ summary.successful >= 1

InputAPng == InputDir \o <<"/">> \o NameAPng
InputAJpg == InputDir \o <<"/">> \o NameAJpg
OutputAWebp == OutputDir \o <<"/", "a">> \o WebpExt

\* With a.png and a.jpg both discovered: each has its own task, both tasks
\* have the output path <output>/a.webp, each is submitted as its own
\* future and consumed as its own outcome, and the summary counts both.
CollidingTasksKept ==
  /\ (Built /\ {InputAPng, InputAJpg} \subseteq Range(image_files)) =>
       /\ Len(conversion_tasks) = Len(image_files)
       /\ \E t1, t2 \in 1..Len(conversion_tasks) :
            /\ t1 # t2
            /\ conversion_tasks[t1] = <<InputAPng, OutputAWebp>>
            /\ conversion_tasks[t2] = <<InputAJpg, OutputAWebp>>
       /\ pc \in {"collect", "shutdown", "summary"} => Len(fut) = Len(image_files)
       /\ summary # NoSummary =>
            /\ yielded = 1..Len(image_files)
            /\ summary.total = Len(image_files)
  /\ \A f, g \in files : f.path = g.path => f = g

\* A write that completes leaves at its output path the bytes that worker
\* encoded, and leaves the other paths alone.
LastWriteWins ==
  \A w \in ThreadIds :
    (worker[w].pc = "write" /\ worker'[w].pc = "return_true") =>
      /\ [path |-> conversion_tasks[worker[w].task][2],
          bytes |-> [i \in 1..Len(worker[w].img.px) |->
                       [format |-> "WEBP", img |-> worker[w].img,
                        quality |-> args.quality]]] \in files'
      /\ \A f \in files' : f.path # conversion_tasks[worker[w].task][2] => f \in files
      /\ \A f \in files : f.path # conversion_tasks[worker[w].task][2] => f \in files'

\* C15: a.png and a.jpg get the same output path and are not deduplicated:
\* both are submitted as separate tasks, may run concurrently, each
\* produces its own outcome and is counted separately, and the content left
\* at the shared output path is that of whichever write completed last.
C15_CollisionLastWriteWins == []CollidingTasksKept /\ [][LastWriteWins]_vars

\* The threads that are at the directory creation of line 23.
AtMakedirs == {w \in ThreadIds : worker[w].pc = "makedirs"}

\* The threads that are past it.
PastMakedirs == {w \in ThreadIds : worker[w].pc \in {"save", "write", "return_true"}}

\* The directory exists once a thread is past its creation; where the
\* directory can be created, a task ends as a failure only for a fault of
\* its own file.
DirectoryMade ==
  /\ dirs \subseteq {OutputDir}
  /\ PastMakedirs # {} => OutputDir \in dirs
  /\ ~mkdirFails =>
       \A t \in 1..Len(fut) :
         (fut[t].state = "finished" /\ fut[t].result # "true") =>
           Lookup(conversion_tasks[t][1]).fault # "none"

\* A thread that leaves the directory creation, where the directory can be
\* created, goes on to the save with the directory existing; when the
\* directory is already there the step changes no directory and no file.
MakedirsStep ==
  \A w \in AtMakedirs :
    worker'[w].pc # "makedirs" =>
      /\ ~mkdirFails => (worker'[w].pc = "save" /\ OutputDir \in dirs')
      /\ OutputDir \in dirs =>
           (worker'[w].pc = "save" /\ dirs' = dirs /\ files' = files)

\* C16: when several workers reach the directory creation for the same
\* output directory that does not exist yet, under every interleaving the
\* directory ends up existing and no worker fails because another worker
\* created it first; creating an existing directory is a no-op.
C16_MakedirsConcurrent == []DirectoryMade /\ [][MakedirsStep]_vars

\* Two threads reached the creation together, one has created the
\* directory and the other is about to create it again.
C16_Witness ==
  /\ OutputDir \in dirs
  /\ AtMakedirs # {}
  /\ PastMakedirs # {}
  /\ \A w \in PastMakedirs : worker[w].pc = "save"
  /\ files = {}

\* The coordinator is in Running: the pool exists and the summary has not
\* been reached.
Running == executor.created /\ pc \in {"submit", "collect", "shutdown"}

\* Task t has been started once, has ended and its outcome is consumed.
Done(t) ==
  /\ t <= Len(fut)
  /\ fut[t].starts = 1
  /\ fut[t].state = "finished"
  /\ t \in yielded

\* The run has printed the summary after consuming every outcome.
SummaryPrinted ==
  /\ Drained /\ pc = "exit"
  /\ "summary" \in console
  /\ summary.total = Len(conversion_tasks)
  /\ \A t \in 1..Len(conversion_tasks) : Done(t)

\* Running is left only for the summary, after every outcome is consumed:
\* no step ends it earlier.
NoEarlyEnd ==
  /\ (Running /\ pc' # pc) => pc' \in {"submit", "collect", "shutdown", "summary"}
  /\ (Running /\ pc' = "summary") => yielded = 1..Len(conversion_tasks)
  /\ Running => (conversion_tasks' = conversion_tasks /\ Len(fut') >= Len(fut))

\* C17: once the coordinator is in Running with N >= 1 tasks and P >= 1
\* workers, every conversion terminating, every submitted task is
\* eventually started and eventually yields an outcome, the run eventually
\* reaches Drained and prints the summary, and no cancellation or timeout
\* ends Running earlier.
C17_RunsToSummary ==
  /\ (Running /\ Len(conversion_tasks) >= 1 /\ args.jobs >= 1) ~> SummaryPrinted
  /\ [][NoEarlyEnd]_vars

C17_Witness ==
  /\ SummaryPrinted
  /\ Len(conversion_tasks) = MaxEntries
  /\ args.jobs = MaxJobs
  /\ summary.failed >= 1 /\ summary.successful >= 1

\* An image in plain three-channel RGB mode.
PlainRGB(img) ==
  /\ img.mode = "RGB"
  /\ img.palette = <<>>
  /\ \A i \in 1..Len(img.px) : Len(img.px[i]) = 3

\* C18: on every path of a conversion that reaches the encode step, the
\* image handed to the encoder is in plain three-channel RGB mode, whatever
\* the decoded mode was (RGBA, LA, P, RGB or another mode).
C18_EncoderGetsRGB ==
  /\ \A w \in ThreadIds :
       worker[w].pc \in {"save", "write", "return_true"} =>
         /\ PlainRGB(worker[w].img)
         /\ Len(worker[w].img.px) = Len(Lookup(conversion_tasks[worker[w].task][1]).img.px)
  /\ \A f \in files : \A i \in 1..Len(f.bytes) : PlainRGB(f.bytes[i].img)

C18_Witness ==
  /\ disk[NameAPng].img.mode = "1"
  /\ Len(disk[NameAPng].img.px) = MaxPixels
  /\ \E f \in files : f.bytes # <<>> /\ PlainRGB(f.bytes[1].img)
  /\ pc = "exit"

\* A run with a jobs value below 1: it is never in Running or Drained, no
\* task is submitted, no conversion attempted, no summary printed; it ends
\* early only for one of the pre-flight errors, and otherwise with the
\* error of the pool construction, after the banner, the scan and the task
\* building.
NonPositiveJobsRun ==
  args.jobs <= 0 =>
    /\ ~executor.created
    /\ pc \notin {"submit", "collect", "shutdown", "summary"}
    /\ fut = <<>>
    /\ InFlight = {}
    /\ files = {} /\ dirs = {}
    /\ summary = NoSummary /\ "summary" \notin console
    /\ console \cap {"converted", "failed_to_convert", "unexpected"} = {}
    /\ successful = 0 /\ failed = 0
    /\ pc = "exit" =>
         /\ exit_code = 1
         /\ IF PreflightError
            THEN /\ console \cap {"input_missing", "bad_quality", "no_images"} # {}
                 /\ "traceback" \notin console
            ELSE /\ "traceback" \in console
                 /\ console \cap {"input_missing", "bad_quality", "no_images"} = {}
    /\ "traceback" \in console =>
         /\ pc = "exit"
         /\ {"banner", "found"} \subseteq console
         /\ scanned
         /\ Len(image_files) >= 1
         /\ Len(conversion_tasks) = Len(image_files)

\* With a jobs value below 1 the validations, the scan and the task
\* building go on as with any other value, and the pool construction ends
\* the run.
NonPositiveJobsStep ==
  args.jobs <= 0 =>
    /\ (pc = "validate_input" /\ inKind # "missing") => pc' = "validate_quality"
    /\ (pc = "validate_quality" /\ args.quality \in 0..100) => pc' = "scan"
    /\ pc = "scan" => pc' = "check_empty"
    /\ (pc = "check_empty" /\ image_files # <<>>) => pc' = "build"
    /\ pc = "build" => pc' = "pool"
    /\ pc = "pool" => pc' = "exit"

\* C19: a non-positive jobs value is not rejected pre-flight: the run passes
\* input and quality validation, scans and builds the tasks, then fails at
\* the construction of the worker pool, so that no task is submitted, no
\* conversion attempted, no summary printed, and the run never reaches
\* Running or Drained.
C19_NonPositiveJobs == []NonPositiveJobsRun /\ [][NonPositiveJobsStep]_vars

C19_Witness ==
  /\ args.jobs = -1
  /\ pc = "exit"
  /\ "traceback" \in console
  /\ Len(conversion_tasks) = MaxEntries
  /\ exit_code = 1

\* The tasks other than t that have t's output path.
SharingPath(t) ==
  {u \in 1..Len(conversion_tasks) :
     u # t /\ conversion_tasks[u][2] = conversion_tasks[t][2]}

\* Every task whose conversion returned True, and so every task tallied in
\* successful, had no fault of its own, the output directory exists and its
\* output file is there, holding its encoding when no other task has the
\* same output path; a task with a fault never returned True; successful
\* counts the consumed tasks that returned True.
SuccessMeansWritten ==
  /\ \A t \in Succeeded :
       /\ Lookup(conversion_tasks[t][1]).fault = "none"
       /\ ~mkdirFails
       /\ OutputDir \in dirs
       /\ \E f \in files :
            /\ f.path = conversion_tasks[t][2]
            /\ SharingPath(t) = {} =>
                 f.bytes = [i \in 1..Len(Lookup(conversion_tasks[t][1]).img.px) |->
                              [format |-> "WEBP",
                               img |-> Normalize(Lookup(conversion_tasks[t][1]).img),
                               quality |-> args.quality]]
  /\ \A t \in 1..Len(fut) :
       (Lookup(conversion_tasks[t][1]).fault # "none" \/ mkdirFails) =>
         fut[t].result # "true"
  /\ executor.created => successful = Cardinality(yielded \cap Succeeded)
  /\ \A w \in ThreadIds : worker[w].pc = "except" => fut[worker[w].task].result = "none"

\* A conversion comes to return True only by its write, made with the
\* directory there, and a future gets True only from a thread that is at
\* the return of line 28.
SuccessStep ==
  /\ \A w \in ThreadIds :
       (worker[w].pc # "return_true" /\ worker'[w].pc = "return_true") =>
         /\ worker[w].pc = "write"
         /\ OutputDir \in dirs
         /\ \E f \in files' : f.path = conversion_tasks[worker[w].task][2] /\ f.bytes # <<>>
  /\ \A t \in 1..Len(fut) :
       (Len(fut') = Len(fut) /\ fut[t].result # "true" /\ fut'[t].result = "true") =>
         \E w \in ThreadIds : worker[w].task = t /\ worker[w].pc = "return_true"

\* C20: a task is counted as successful only if its worker completed the
\* directory creation and the write of its output path without error
\* before returning: each task tallied in successful has had its output
\* file written, and a worker that failed before or during the write is
\* never tallied as successful.
C20_SuccessOnlyAfterWrite == []SuccessMeansWritten /\ [][SuccessStep]_vars

C20_Witness ==
  /\ pc = "exit" /\ summary # NoSummary
  /\ args.jobs = MaxJobs
  /\ listing = <<NameHBmp, NameAPng, NameDPng>>
  /\ summary.successful = 1 /\ summary.failed = 2
  /\ \E f \in files : f.path = OutputDir \o <<"/", "a">> \o WebpExt /\ f.bytes # <<>>
  /\ Cardinality(files) = 1

====
